---------------------------- MODULE Spec2Model ----------------------------
(***************************************************************************)
(* A model of code/python/ecat.py: the Ecat class that loads an ECAT file  *)
(* and builds, prunes and prints the BIDS sidecar document.                *)
(*                                                                         *)
(* Python values are records  [t, n, s, l]  (type tag, integer payload,    *)
(* string payload, list payload).  A dict is a function whose DOMAIN is    *)
(* its key set.  A path is a sequence of one-character strings.            *)
(***************************************************************************)
EXTENDS Integers, Sequences, FiniteSets, Bags, TLC

(***************************************************************************)
(* Bounds of the model.                                                    *)
(***************************************************************************)
\* Longest per-frame list the shared template may accumulate.
MaxListLen == 2

\* Number of Ecat instances the process constructs.
MaxConversions == 2

(***************************************************************************)
(* Python values.                                                          *)
(***************************************************************************)
PyNone == [t |-> "NoneType", n |-> 0, s |-> "", l |-> <<>>]

PyInt(i) == [t |-> "int", n |-> i, s |-> "", l |-> <<>>]

PyStr(x) == [t |-> "str", n |-> 0, s |-> x, l |-> <<>>]

PyList(items) == [t |-> "list", n |-> 0, s |-> "", l |-> items]

\* bool(value): None, 0, "" and [] are falsy.
Truthy(value) ==
    CASE value.t = "NoneType" -> FALSE
      [] value.t = "int"      -> value.n # 0
      [] value.t = "str"      -> value.s # ""
      [] OTHER                -> value.l # <<>>

\* dict.get(key, None)
Get(dict, key) == IF key \in DOMAIN dict THEN dict[key] ELSE PyNone

\* dict[key] = value
SetItem(dict, key, value) ==
    [k \in DOMAIN dict \cup {key} |-> IF k = key THEN value ELSE dict[k]]

\* dict.update(**kwargs)
Update(dict, kwargs) ==
    [k \in DOMAIN dict \cup DOMAIN kwargs |->
        IF k \in DOMAIN kwargs THEN kwargs[k] ELSE dict[k]]

\* The dict without the keys in gone (dict.pop for each of them).
Without(dict, gone) == [k \in DOMAIN dict \ gone |-> dict[k]]

EmptyDict == [k \in {} |-> PyNone]

(***************************************************************************)
(* Paths.                                                                  *)
(***************************************************************************)
RECURSIVE Join(_)
\* The string a sequence of characters spells.
Join(chars) == IF chars = <<>> THEN "" ELSE Head(chars) \o Join(Tail(chars))

\* '.gz' in path : the literal three characters occur somewhere.
ContainsDotGz(path) ==
    \E i \in 1..(Len(path) - 2) :
        path[i] = "." /\ path[i + 1] = "g" /\ path[i + 2] = "z"

RECURSIVE ReSubDotGz(_)
\* re.sub('.gz', '', path): the pattern is a regular expression whose '.'
\* matches any character; every leftmost non-overlapping match is removed.
ReSubDotGz(path) ==
    IF Len(path) < 3 THEN path
    ELSE IF path[2] = "g" /\ path[3] = "z"
         THEN ReSubDotGz(SubSeq(path, 4, Len(path)))
         ELSE <<Head(path)>> \o ReSubDotGz(Tail(path))

\* Index of the last occurrence of ch in path, 0 when there is none.
LastIndex(path, ch) ==
    LET hits == {i \in 1..Len(path) : path[i] = ch}
    IN  IF hits = {} THEN 0 ELSE CHOOSE i \in hits : \A j \in hits : j <= i

\* os.path.basename(path)
Basename(path) == SubSeq(path, LastIndex(path, "/") + 1, Len(path))

\* os.path.splitext(path)[0]: the path up to the last dot of its last
\* component, leading dots of that component not counting.
SplitextRoot(path) ==
    LET sep  == LastIndex(path, "/")
        dot  == LastIndex(path, ".")
        lead == \A i \in (sep + 1)..(dot - 1) : path[i] = "."
    IN  IF dot > sep /\ ~lead THEN SubSeq(path, 1, dot - 1) ELSE path

NiiExt == <<".", "n", "i", "i">>


(***************************************************************************)
(* sidecar.py: the two templates.  The full template seeds every           *)
(* recognised field with an empty default (an empty list for a per-frame   *)
(* field); the short template holds the mandatory fields.                  *)
(***************************************************************************)
PerFrameKeys ==
    << <<"DecayCorrectionFactor", "DECAY_CORR_FCTR">>,
       <<"FrameTimesStart",       "FRAME_START_TIME">>,
       <<"FrameDuration",         "FRAME_DURATION">>,
       <<"ScaleFactor",           "SCALE_FACTOR">>,
       <<"ScatterFraction",       "SCATTER_FRACTION">>,
       <<"PromptRate",            "PROMPT_RATE">>,
       <<"RandomRate",            "RANDOM_RATE">>,
       <<"SinglesRate",           "SINGLES_RATE">> >>

PerFrameFields == {PerFrameKeys[i][1] : i \in 1..Len(PerFrameKeys)}

SidecarTemplateFull ==
    [k \in PerFrameFields |-> PyList(<<>>)]
    @@ [k \in {"Manufacturer", "ManufacturersModelName", "Units", "TracerName",
               "TracerRadionuclide", "PharmaceuticalName", "AcquisitionTime",
               "PharmaceuticalDoseTime", "AttenuationCorrection"} |-> PyStr("")]
    @@ [k \in {"InjectedRadioactivity", "ScanStart", "ImageDecayCorrected",
               "CalibrationFactor", "TimeZero"} |-> PyNone]

SidecarTemplateShort ==
    [k \in {"FrameTimesStart", "FrameDuration"} |-> PyList(<<>>)]
    @@ [k \in {"Manufacturer", "ManufacturersModelName", "Units", "TracerName",
               "TracerRadionuclide"} |-> PyStr("")]
    @@ [k \in {"InjectedRadioactivity", "ScanStart", "ImageDecayCorrected"}
           |-> PyNone]

(***************************************************************************)
(* The files on disk and what read_ecat returns for each: a header dict    *)
(* and one subheader dict per frame.                                       *)
(***************************************************************************)
Geometry ==
    ("X_DIMENSION" :> PyInt(128)) @@ ("Y_DIMENSION" :> PyInt(128))
    @@ ("Z_DIMENSION" :> PyInt(63)) @@ ("X_PIXEL_SIZE" :> PyInt(2))
    @@ ("Y_PIXEL_SIZE" :> PyInt(2)) @@ ("Z_PIXEL_SIZE" :> PyInt(3))

\* An emission frame: every per-frame field is there.
EmissionFrame(start, duration) ==
    Geometry @@ ("DECAY_CORR_FCTR" :> PyInt(1)) @@ ("FRAME_START_TIME" :> start)
    @@ ("FRAME_DURATION" :> duration) @@ ("SCALE_FACTOR" :> PyInt(5))
    @@ ("SCATTER_FRACTION" :> PyInt(4)) @@ ("PROMPT_RATE" :> PyInt(9))
    @@ ("RANDOM_RATE" :> PyInt(8)) @@ ("SINGLES_RATE" :> PyInt(6))

\* The standard matrix image: no decay, rate or scatter field.
StandardFrame ==
    Geometry @@ ("FRAME_START_TIME" :> PyInt(0))
    @@ ("FRAME_DURATION" :> PyInt(300)) @@ ("SCALE_FACTOR" :> PyInt(5))

Scanner ==
    ("SERIAL_NUMBER" :> PyStr("1093")) @@ ("ISOTOPE_NAME" :> PyStr("F-18"))
    @@ ("RADIOPHARAMCEUTICAL" :> PyStr("FDG"))

PathA  == <<"d", "/", "a", ".", "v">>
PathB  == <<"b", ".", "v">>
PathC  == <<"c", ".", "v">>
PathE  == <<"e", ".", "v">>
PathF  == <<"f", ".", "v">>
PathG  == <<"g", ".", "v">>
PathN  == <<"n", ".", "v">>
PathZ  == <<"z", ".", "v">>
PathGz == <<"z", ".", "v", ".", "g", "z">>

\* The paths a caller passes as ecat_file.
EcatPaths ==
    {PathA, PathB, PathC, PathE, PathF, PathG, PathN, PathZ, PathGz}

\* The files that exist before the process starts.
InitialFiles == EcatPaths \ {PathZ}

\* The constructor calls a caller makes: ecat_file, nifti_file (<<>> stands
\* for None) and decompress.
InitCalls ==
    {<<path, <<>>, TRUE>> : path \in EcatPaths}
    \cup {<<PathGz, <<>>, FALSE>>, <<PathB, <<"o", "/", "s", ".", "n", "i", "i">>, FALSE>>}

\* read_ecat(path)[0]
StoredHeader(path) ==
    CASE path = PathA ->
           Scanner @@ ("SCAN_START_TIME" :> PyInt(3723))
           @@ ("DOSE_START_TIME" :> PyStr("1970-01-01 00:00:10"))
           @@ ("ECAT_CALIBRATION_FACTOR" :> PyInt(7)) @@ ("NUM_FRAMES" :> PyInt(2))
      [] path \in {PathB, PathZ, PathGz} ->
           ("SCAN_START_TIME" :> PyInt(0)) @@ ("ECAT_CALIBRATION_FACTOR" :> PyInt(0))
           @@ ("NUM_FRAMES" :> PyInt(1))
      [] path = PathC ->
           Scanner @@ ("DOSE_START_TIME" :> PyInt(86399))
           @@ ("NUM_FRAMES" :> PyInt(1))
      [] path = PathE ->
           ("SCAN_START_TIME" :> PyStr("1970-01-01 00:00:10"))
           @@ ("NUM_FRAMES" :> PyInt(0))
      [] path \in {PathF, PathG} ->
           ("SCAN_START_TIME" :> PyNone) @@ ("NUM_FRAMES" :> PyInt(1))
      [] OTHER -> Scanner

\* read_ecat(path)[1]
StoredSubheaders(path) ==
    CASE path = PathA ->
           << EmissionFrame(PyInt(0), PyInt(300)), EmissionFrame(PyInt(300), PyNone) >>
      [] path \in {PathB, PathZ, PathGz} -> << StandardFrame >>
      [] path \in {PathC, PathN} -> << EmissionFrame(PyInt(0), PyInt(60)) >>
      [] path = PathE -> << >>
      [] path = PathF ->
           << [k \in DOMAIN StandardFrame \ {"Z_DIMENSION"} |-> StandardFrame[k]] >>
      [] OTHER ->
           << [k \in DOMAIN StandardFrame \ {"Y_PIXEL_SIZE"} |-> StandardFrame[k]] >>

(***************************************************************************)
(* parse_this_date                                                         *)
(***************************************************************************)
Pad2(n) == IF n < 10 THEN "0" \o ToString(n) ELSE ToString(n)

\* strftime("%H:%M:%S") of a time of day given in seconds.
StrfTime(secs) ==
    Pad2(secs \div 3600) \o ":" \o Pad2((secs % 3600) \div 60) \o ":" \o Pad2(secs % 60)

\* dateutil's parser.parse: the time of day, in seconds, that a date string
\* names, -1 for a string it rejects.
DateutilParse(text) ==
    CASE text = "1970-01-01 00:00:10" -> 10
      [] text = "01:02:03"            -> 3723
      [] OTHER                        -> -1

\* parse_this_date(date_like_object): an int is a POSIX timestamp
\* (datetime.fromtimestamp, local time taken to be UTC), anything else goes
\* to dateutil.
parse_this_date(date_like_object) ==
    IF date_like_object.t = "int"
    THEN [exc |-> "none",
          value |-> PyStr(StrfTime(date_like_object.n % 86400))]
    ELSE IF date_like_object.t # "str"
    THEN [exc |-> "TypeError", value |-> PyNone]
    ELSE IF DateutilParse(date_like_object.s) < 0
    THEN [exc |-> "ParserError", value |-> PyNone]
    ELSE [exc |-> "none",
          value |-> PyStr(StrfTime(DateutilParse(date_like_object.s)))]

(***************************************************************************)
(* populate_sidecar.  A run of statements is a record [doc, exc]: the      *)
(* sidecar dict so far and the exception that ended the run ("none" while  *)
(* it is still running).  What was written before a raise stays written.   *)
(***************************************************************************)
\* doc[key] = value, unless the run has already raised.
Assign(st, key, value) ==
    IF st.exc # "none" THEN st
    ELSE [st EXCEPT !.doc = SetItem(st.doc, key, value)]

Raise(st, exc) == IF st.exc # "none" THEN st ELSE [st EXCEPT !.exc = exc]

\* doc[key].append(value)
AppendTo(st, key, value) ==
    IF st.exc # "none" THEN st
    ELSE IF key \notin DOMAIN st.doc THEN Raise(st, "KeyError")
    ELSE IF st.doc[key].t # "list" THEN Raise(st, "AttributeError")
    ELSE Assign(st, key, PyList(Append(st.doc[key].l, value)))

RECURSIVE AppendFrame(_, _, _)
\* Lines 142-152 for one subheader, from the f-th per-frame field on.
AppendFrame(st, subheader, f) ==
    IF f > Len(PerFrameKeys) THEN st
    ELSE AppendFrame(
             AppendTo(st, PerFrameKeys[f][1], Get(subheader, PerFrameKeys[f][2])),
             subheader, f + 1)

RECURSIVE AppendFrames(_, _, _)
\* The loop of lines 141-152, from the i-th subheader on.
AppendFrames(st, subheaders, i) ==
    IF i > Len(subheaders) THEN st
    ELSE AppendFrames(AppendFrame(st, subheaders[i], 1), subheaders, i + 1)

\* Lines 155-160 and 163-166: a truthy header value is parsed and written
\* to every key of keys; a falsy one is skipped.
SetTimes(st, raw, keys) ==
    IF st.exc # "none" \/ ~Truthy(raw) THEN st
    ELSE LET parsed == parse_this_date(raw)
         IN  IF parsed.exc # "none" THEN Raise(st, parsed.exc)
             ELSE [st EXCEPT !.doc =
                      [k \in DOMAIN st.doc \cup keys |->
                          IF k \in keys THEN parsed.value ELSE st.doc[k]]]

\* Lines 174-179: subheaders[0][...] and ecat_header['NUM_FRAMES'] are
\* plain subscripts.
SetImageSize(st, self) ==
    IF st.exc # "none" THEN st
    ELSE IF self.subheaders = <<>> THEN Raise(st, "IndexError")
    ELSE IF {"X_DIMENSION", "Y_DIMENSION", "Z_DIMENSION"}
               \ DOMAIN self.subheaders[1] # {}
    THEN Raise(st, "KeyError")
    ELSE IF "NUM_FRAMES" \notin DOMAIN self.ecat_header THEN Raise(st, "KeyError")
    ELSE Assign(st, "ImageSize",
                PyList(<< self.subheaders[1]["X_DIMENSION"],
                          self.subheaders[1]["Y_DIMENSION"],
                          self.subheaders[1]["Z_DIMENSION"],
                          self.ecat_header["NUM_FRAMES"] >>))

\* value * 10 of lines 182-184.
TimesTen(value) == PyInt(value.n * 10)

\* Lines 181-185.
SetPixelDimensions(st, self) ==
    LET sizes == <<"X_PIXEL_SIZE", "Y_PIXEL_SIZE", "Z_PIXEL_SIZE">>
        first == self.subheaders[1]
        bad   == {i \in 1..3 : sizes[i] \notin DOMAIN first
                               \/ first[sizes[i]].t # "int"}
        worst == CHOOSE i \in bad : \A j \in bad : i <= j
    IN  IF st.exc # "none" THEN st
        ELSE IF bad # {}
        THEN Raise(st, IF sizes[worst] \notin DOMAIN first
                       THEN "KeyError" ELSE "TypeError")
        ELSE Assign(st, "PixelDimensions",
                    PyList([i \in 1..3 |-> TimesTen(first[sizes[i]])]))

\* Lines 168-170.
SetDecayCorrected(st, self) ==
    IF Len(self.decay_factors) > 0
    THEN Assign(st, "ImageDecayCorrected", PyStr("true"))
    ELSE st

\* A merge that keeps a key the dict already holds.
MergeKwargsKeepExisting(st, kwargs) ==
    IF st.exc # "none" \/ DOMAIN kwargs = {} THEN st
    ELSE [st EXCEPT !.doc = Update(kwargs, st.doc)]

\* Lines 187-189.
MergeKwargs(st, kwargs) ==
    IF st.exc # "none" \/ DOMAIN kwargs = {} THEN st
    ELSE [st EXCEPT !.doc = Update(st.doc, kwargs)]

\* populate_sidecar(self, **kwargs) run on the dict doc.
populate_sidecar(doc, self, kwargs) ==
    LET s0 == [doc |-> doc, exc |-> "none"]
        s1 == Assign(s0, "Manufacturer", PyStr("Siemens"))
        s2 == Assign(s1, "ManufacturersModelName",
                     Get(self.ecat_header, "SERIAL_NUMBER"))
        s3 == Assign(s2, "TracerRadionuclide", Get(self.ecat_header, "ISOTOPE_NAME"))
        s4 == Assign(s3, "PharmaceuticalName",
                     Get(self.ecat_header, "RADIOPHARAMCEUTICAL"))
        s5 == AppendFrames(s4, self.subheaders, 1)
        s6 == SetTimes(s5, Get(self.ecat_header, "SCAN_START_TIME"),
                       {"AcquisitionTime", "ScanStart"})
        s7 == SetTimes(s6, Get(self.ecat_header, "DOSE_START_TIME"),
                       {"PharmaceuticalDoseTime"})
        s8 == SetDecayCorrected(s7, self)
        s9 == Assign(s8, "CalibrationFactor",
                     Get(self.ecat_header, "ECAT_CALIBRATION_FACTOR"))
        s10 == Assign(s9, "Filename", PyStr(Join(Basename(self.nifti_file))))
        s11 == SetImageSize(s10, self)
        s12 == SetPixelDimensions(s11, self)
    IN  MergeKwargs(s12, kwargs)

(***************************************************************************)
(* prune_sidecar                                                           *)
(***************************************************************************)
\* value.count(None)
NoneCount(value) == Cardinality({i \in 1..Len(value.l) : value.l[i] = PyNone})

\* The test with line 209 left out: no scalar reaches exclude_list.
PopulatedListsOnly(value) ==
    Truthy(value) /\ value.t = "list" /\ Len(value.l) # NoneCount(value)

\* Lines 199-209: the test that puts a field on exclude_list.
Populated(value) ==
    Truthy(value) /\ (value.t = "list" => Len(value.l) # NoneCount(value))

\* exclude_list with line 211 left out.
ExcludeListNoShort(doc) == {field \in DOMAIN doc : Populated(doc[field])}

\* Line 211.
ExcludeList(doc) ==
    {field \in DOMAIN doc : Populated(doc[field])} \cup DOMAIN SidecarTemplateShort

\* A destroy_list cut to its first field, as a return inside the loop of
\* lines 216-217 would leave it.
DestroyListFirstOnly(doc) ==
    LET all == DOMAIN doc \ ExcludeList(doc)
    IN  IF all = {} THEN {} ELSE {CHOOSE field \in all : TRUE}

\* Line 213.
DestroyList(doc) == DOMAIN doc \ ExcludeList(doc)

\* The returned list of popped values; its order is that of a set's
\* iteration, so it is kept as a bag.
Destroyed(doc) ==
    LET gone == DestroyList(doc)
    IN  [v \in {doc[k] : k \in gone} |-> Cardinality({k \in gone : doc[k] = v})]

\* The dict after prune_sidecar.
prune_sidecar(doc) == Without(doc, DestroyList(doc))

(***************************************************************************)
(* The process: one module-level template dict, the Ecat instance the      *)
(* caller holds, and the files on disk.                                    *)
(***************************************************************************)
VARIABLES
    sidecar_template,   \* the dict sidecar_template_full, which line 43 binds
                        \* to self.sidecar_template without copying it
    self,               \* the Ecat instance the caller holds
    files,              \* the paths that exist on disk
    io,                 \* what the last __init__ call did to files, in order
    conversions,        \* how many instances have been constructed
    last                \* the last call: its name, what it raised, its
                        \* kwargs and the list prune_sidecar returned

vars == <<sidecar_template, self, files, io, conversions, last>>

NoCall(op) == [op |-> op, exc |-> "none", kwargs |-> EmptyDict, destroyed |-> EmptyBag]

\* The keyword arguments a caller passes to populate_sidecar.
KwargsSet ==
    { EmptyDict,
      ("Manufacturer" :> PyStr("TestOverride")) @@ ("InstitutionName" :> PyStr("NRU")),
      ("CalibrationFactor" :> PyInt(0)) @@ ("Units" :> PyStr(""))
      @@ ("AttenuationCorrection" :> PyList(<<PyNone>>)) @@ ("BodyPart" :> PyNone) }

Init ==
    /\ sidecar_template = SidecarTemplateFull
    /\ self = [made |-> FALSE, ecat_file |-> <<>>, nifti_file |-> <<>>,
               ecat_header |-> EmptyDict, subheaders |-> <<>>,
               decay_factors |-> <<>>]
    /\ files = InitialFiles
    /\ io = <<>>
    /\ conversions = 0
    /\ last = NoCall("start")

\* The path lines 58 and 65 hand to nibabel.ecat.load and to read_ecat.
ReadPath(ecat_file, uncompressed_ecat_file) == ecat_file

\* Lines 73-76.
NiftiFile(ecat_file, nifti_file) ==
    IF nifti_file = <<>> THEN SplitextRoot(ecat_file) \o NiiExt ELSE nifti_file

\* Ecat(ecat_file, nifti_file, decompress)
EcatInit(ecat_file, nifti_file, decompress) ==
    LET exists == ecat_file \in files
        gz == ContainsDotGz(ecat_file)
        uncompressed_ecat_file == ReSubDotGz(ecat_file)
        decompressed == exists /\ gz /\ decompress
        read == ReadPath(ecat_file, uncompressed_ecat_file)
        exc == IF ~exists THEN "FileNotFoundError"
               ELSE IF gz /\ ~decompress THEN "Exception"
               ELSE "none"
    IN  /\ conversions < MaxConversions
        /\ conversions' = IF exc = "none" THEN conversions + 1 ELSE conversions
        /\ files' = IF decompressed THEN files \cup {uncompressed_ecat_file} ELSE files
        /\ io' = (IF decompressed
                  THEN << [call |-> "decompress", path |-> ecat_file,
                           to |-> uncompressed_ecat_file] >>
                  ELSE << >>)
                 \o (IF exc = "none"
                     THEN << [call |-> "nibabel.ecat.load", path |-> read, to |-> <<>>] >>
                     ELSE << >>)
                 \o (IF exc = "none"
                     THEN << [call |-> "read_ecat", path |-> read, to |-> <<>>] >>
                     ELSE << >>)
        /\ self' = IF exc # "none" THEN self
                   ELSE [made |-> TRUE, ecat_file |-> ecat_file,
                         nifti_file |-> NiftiFile(ecat_file, nifti_file),
                         ecat_header |-> StoredHeader(read),
                         subheaders |-> StoredSubheaders(read),
                         decay_factors |-> <<>>]
        /\ last' = [NoCall("__init__") EXCEPT !.exc = exc]
        /\ UNCHANGED sidecar_template

\* The longest list among the per-frame fields of the dict.
LongestList(doc) ==
    LET lens == {Len(doc[k].l) : k \in PerFrameFields \cap DOMAIN doc} \cup {0}
    IN  CHOOSE n \in lens : \A m \in lens : m <= n

\* self.populate_sidecar(**kwargs)
Populate(kwargs) ==
    /\ self.made
    /\ LongestList(sidecar_template) + Len(self.subheaders) <= MaxListLen
    /\ LET run == populate_sidecar(sidecar_template, self, kwargs)
       IN  /\ sidecar_template' = run.doc
           /\ last' = [NoCall("populate_sidecar") EXCEPT
                          !.exc = run.exc, !.kwargs = kwargs]
    /\ UNCHANGED <<self, files, io, conversions>>

\* self.prune_sidecar()
Prune ==
    /\ self.made
    /\ sidecar_template' = prune_sidecar(sidecar_template)
    /\ last' = [NoCall("prune_sidecar") EXCEPT
                   !.destroyed = Destroyed(sidecar_template)]
    /\ UNCHANGED <<self, files, io, conversions>>

\* self.show_sidecar(): prunes, then prints the dict.
ShowSidecar ==
    /\ self.made
    /\ sidecar_template' = prune_sidecar(sidecar_template)
    /\ last' = [NoCall("show_sidecar") EXCEPT
                   !.destroyed = Destroyed(sidecar_template)]
    /\ UNCHANGED <<self, files, io, conversions>>

Next ==
    \/ \E call \in InitCalls : EcatInit(call[1], call[2], call[3])
    \/ \E kwargs \in KwargsSet : Populate(kwargs)
    \/ Prune
    \/ ShowSidecar

Spec == Init /\ [][Next]_vars

(***************************************************************************)
(* Properties.                                                             *)
(***************************************************************************)
PruneCalls == {"prune_sidecar", "show_sidecar"}

\* populate_sidecar was the last call and returned.
Populated_ok == last.op = "populate_sidecar" /\ last.exc = "none"

\* A list whose entries are all None (the empty list among them).
AllNone(value) == value.t = "list" /\ \A i \in 1..Len(value.l) : value.l[i] = PyNone

\* The values subheaders hold for a per-frame source field, None where a
\* subheader lacks it.
FrameValues(subheaders, field) ==
    [i \in 1..Len(subheaders) |-> Get(subheaders[i], field)]

\* C1: after a populate call that returned, every per-frame list of the
\* sidecar is exactly as long as the instance's subheaders and its i-th
\* entry is subheaders[i]'s value for that field, or None.
C1_PerFrameListsAligned ==
    Populated_ok =>
        \A f \in 1..Len(PerFrameKeys) :
            /\ PerFrameKeys[f][1] \in DOMAIN sidecar_template
            /\ sidecar_template[PerFrameKeys[f][1]]
                   = PyList(FrameValues(self.subheaders, PerFrameKeys[f][2]))

\* C2: the document of a conversion depends on that conversion alone: the
\* first populate of a newly constructed instance, when it returns, leaves
\* the document that populate builds from a fresh copy of the full template.
C2_FreshTemplatePerConversion ==
    [][(/\ last.op = "__init__" /\ last.exc = "none"
        /\ last'.op = "populate_sidecar" /\ last'.exc = "none")
          => sidecar_template'
                 = populate_sidecar(SidecarTemplateFull, self, last'.kwargs).doc]_vars

\* C3: after prune every key of the short template is in the document,
\* and no key outside the short template is left with a value that is None
\* or a list of nothing but None.
C3_PruneMandatorySafe ==
    last.op \in PruneCalls =>
        /\ DOMAIN SidecarTemplateShort \subseteq DOMAIN sidecar_template
        /\ \A k \in DOMAIN sidecar_template \ DOMAIN SidecarTemplateShort :
               sidecar_template[k] # PyNone /\ ~AllNone(sidecar_template[k])

\* A prune of a populated document that deleted all-None lists and None
\* scalars and kept a mandatory field that is still None.
C3_Witness ==
    /\ last.op \in PruneCalls
    /\ "ImageSize" \in DOMAIN sidecar_template
    /\ sidecar_template["InjectedRadioactivity"] = PyNone
    /\ "ScatterFraction" \notin DOMAIN sidecar_template
    /\ {PyNone, PyList(<<PyNone>>)} \subseteq DOMAIN last.destroyed

\* C4: populate on a freshly loaded template never raises, whatever the
\* header and the subheaders lack.
C4_PopulateNeverRaises ==
    [][(sidecar_template = SidecarTemplateFull /\ last'.op = "populate_sidecar")
          => last'.exc = "none"]_vars

\* A SCAN_START_TIME value the header holds: a timestamp or a date string.
HasScanStart(header) ==
    /\ "SCAN_START_TIME" \in DOMAIN header
    /\ \/ header["SCAN_START_TIME"].t = "int"
       \/ header["SCAN_START_TIME"].t = "str"
          /\ DateutilParse(header["SCAN_START_TIME"].s) >= 0

\* The document holds value under key.
Holds(doc, key, value) == key \in DOMAIN doc /\ doc[key] = value

\* The document has no value under key but the template's default.
Unset(doc, key) == key \in DOMAIN doc => doc[key] = SidecarTemplateFull[key]

\* C5: after populate, a header with a SCAN_START_TIME (0 included) has
\* given AcquisitionTime and ScanStart its HH:MM:SS form, and a header
\* without one has left both as the template has them.
C5_ScanStartNormalized ==
    Populated_ok =>
        IF HasScanStart(self.ecat_header)
        THEN LET hms == parse_this_date(self.ecat_header["SCAN_START_TIME"]).value
             IN  /\ Holds(sidecar_template, "AcquisitionTime", hms)
                 /\ Holds(sidecar_template, "ScanStart", hms)
        ELSE "SCAN_START_TIME" \notin DOMAIN self.ecat_header =>
             /\ Unset(sidecar_template, "AcquisitionTime")
             /\ Unset(sidecar_template, "ScanStart")

\* C6: after populate, ImageDecayCorrected is "true" when a subheader gave
\* a decay correction factor, is never "true" when no subheader was read,
\* and is never "false".
C6_ImageDecayCorrected ==
    Populated_ok =>
        /\ (\E i \in 1..Len(self.subheaders) :
                "DECAY_CORR_FCTR" \in DOMAIN self.subheaders[i])
               => sidecar_template["ImageDecayCorrected"] = PyStr("true")
        /\ self.subheaders = <<>>
               => sidecar_template["ImageDecayCorrected"] # PyStr("true")
        /\ sidecar_template["ImageDecayCorrected"] # PyStr("false")

KeptByPrune(value) ==
    /\ value \notin {PyNone, PyInt(0), PyStr(""), PyList(<<>>)}
    /\ ~AllNone(value)

C8_ReadsDecompressedPath ==
    (last.op = "__init__" /\ io # <<>> /\ io[1].call = "decompress") =>
        \A i \in 2..Len(io) : io[i].path = io[1].to

\* C9: a prune right after a prune deletes nothing, returns the empty list
\* and leaves the document as it was.
C9_PruneIdempotent ==
    [][(last.op \in PruneCalls /\ last'.op \in PruneCalls)
          => /\ sidecar_template' = sidecar_template
             /\ last'.destroyed = EmptyBag]_vars

\* A prune that found nothing to delete in a populated document from which
\* template fields are already gone while unpopulated mandatory ones remain.
C9_Witness ==
    /\ last.op = "show_sidecar"
    /\ "ImageSize" \in DOMAIN sidecar_template
    /\ last.destroyed = EmptyBag
    /\ "TimeZero" \notin DOMAIN sidecar_template
    /\ sidecar_template["InjectedRadioactivity"] = PyNone

\* A scalar that is not None, or a list with an entry that is not None.
NonNull(value) == value # PyNone /\ (value.t = "list" => ~AllNone(value))

\* C10 as stated: prune keeps every key whose value is a non-None scalar
\* (0 and "" included) or a list with a non-None entry, value unchanged.
C10_PruneRetainsNonNull ==
    [][last'.op \in PruneCalls
          => \A k \in DOMAIN sidecar_template :
                 NonNull(sidecar_template[k])
                     => /\ k \in DOMAIN sidecar_template'
                        /\ sidecar_template'[k] = sidecar_template[k]]_vars

\* C10 as amended: prune keeps every key whose value is a scalar other
\* than None, 0 and "", or a list with a non-None entry, and every key it
\* keeps has the value it had.
C10_PruneRetainsTruthy ==
    [][last'.op \in PruneCalls
          => /\ \A k \in DOMAIN sidecar_template :
                    KeptByPrune(sidecar_template[k])
                        => k \in DOMAIN sidecar_template'
             /\ \A k \in DOMAIN sidecar_template' :
                    /\ k \in DOMAIN sidecar_template
                    /\ sidecar_template'[k] = sidecar_template[k]]_vars

\* A prune that deleted something and kept populated scalars and a list
\* with a None entry among non-None ones.
C10_Witness ==
    /\ last.op \in PruneCalls
    /\ last.destroyed # EmptyBag
    /\ "CalibrationFactor" \in DOMAIN sidecar_template
    /\ sidecar_template["CalibrationFactor"] = PyInt(7)
    /\ "ScatterFraction" \in DOMAIN sidecar_template
    /\ sidecar_template["ScatterFraction"] = PyList(<<PyInt(4), PyInt(4)>>)
    /\ sidecar_template["FrameDuration"] = PyList(<<PyInt(300), PyNone>>)

=============================================================================
